---------------------------- MODULE Spec2Model ----------------------------
(***************************************************************************)
(* sentineldns: the live monitor (data/live_monitor.py) and the window     *)
(* aggregator (features/window_features.py).                               *)
(*                                                                         *)
(* The input file is a sequence of bytes.  A record line is three bytes    *)
(* long: the two halves of the JSON object and the newline.  Time is in    *)
(* minutes.  A timestamp string is a pair (instant, UTC offset); strings   *)
(* sort by their local time first, as ISO-8601 text does.                  *)
(***************************************************************************)
EXTENDS Integers, Sequences, FiniteSets, TLC

\* ------------------------------------------------------------------ bounds
MaxLines == 3        \* lines the writer appends to the input file (Spec)
TailLines == 3       \* the same under SpecTail
RestartLines == 2    \* the same under SpecRestart
MaxSessions == 2     \* runs of run_live_monitor over the same files
WindowMinutes == 2   \* window_minutes
MaxRows == 3         \* data rows of a store that is appended to and purged
MaxEvents == 3       \* events of a batch given to the aggregator
SeenCapacity == 2    \* the maxlen of seen_history in the runs that fill it
                     \* (SeenMaxLen in the program)
MaxUnique == 2       \* unique domains of one window in these runs
MaxNameLen == 2      \* characters of a domain given to the privacy functions
MaxPatLen == 3       \* characters of an exclusion pattern
MaxWindows == 5      \* windows of a batch made to measure periodicity
MaxPerWindow == 3    \* events of one window of such a batch
TwinLines == 3       \* lines the writer appends under SpecTwin
FaultyLines == 3     \* the same under SpecFaulty




\* ------------------------------------------------------- program constants
SeenMaxLen == 50000  \* deque(maxlen=50_000)
MinutesPerDay == 1440

\* ------------------------------------------------------- the record universe
\* A timestamp string: k = "iso" parses (instant inst, UTC offset off, both
\* in minutes), k = "none" is the empty string of a record without "ts".
Ts(inst, off) == [k |-> "iso", inst |-> inst, off |-> off]
NoTs == [k |-> "none", inst |-> 0, off |-> 0]
\* A timestamp string without a UTC offset, and one that is no timestamp.
NaiveTs(inst) == [k |-> "naive", inst |-> inst, off |-> 0]
BadTs == [k |-> "bad", inst |-> 0, off |-> 0]

\* The JSON objects the writer may log.  domain is the raw text of the field
\* (<<>>: the field is absent), rcode "absent" an absent field.
RecordTable ==
  << [domain |-> <<"a">>,      ts |-> Ts(0, 0), rcode |-> "NOERROR"],
     [domain |-> <<"A", " ">>, ts |-> Ts(1, 0), rcode |-> "NXDOMAIN"],
     [domain |-> <<"b", "k">>, ts |-> Ts(0, 0), rcode |-> "absent"],
     [domain |-> <<"c">>,      ts |-> Ts(3, 0), rcode |-> "NOERROR"],
     [domain |-> <<"c">>,      ts |-> Ts(2, 1), rcode |-> "NXDOMAIN"],
     [domain |-> <<>>,         ts |-> NoTs,     rcode |-> "NOERROR"],
     [domain |-> <<"a">>,      ts |-> Ts(4, 0), rcode |-> "NOERROR"],
     [domain |-> <<"a">>,      ts |-> BadTs,    rcode |-> "NOERROR"],
     [domain |-> <<"a">>,      ts |-> NaiveTs(1), rcode |-> "NOERROR"] >>

\* The records of the first four minutes whose "ts", when there is one, is
\* a timestamp with a UTC offset.
RecordIds ==
  {r \in 1..Len(RecordTable) :
     RecordTable[r].ts.k \in {"iso", "none"} /\ RecordTable[r].ts.inst < 4}

\* The record that repeats a domain four minutes later, the one whose "ts"
\* is no timestamp, and the one whose "ts" has no UTC offset.
RepeatIds == {r \in 1..Len(RecordTable) :
                RecordTable[r].ts.k = "iso" /\ RecordTable[r].ts.inst >= 4}
BadTsIds == {r \in 1..Len(RecordTable) : RecordTable[r].ts.k = "bad"}
NaiveTsIds == {r \in 1..Len(RecordTable) : RecordTable[r].ts.k = "naive"}


\* -------------------------------------------------------------------- bytes
NL == [k |-> "nl", r |-> 0]            \* "\n"
Garbage == [k |-> "x", r |-> 0]        \* a byte that is no JSON
Scalar == [k |-> "n", r |-> 0]         \* a JSON value that is no object
HalfA(r) == [k |-> "a", r |-> r]       \* first half of record r's JSON text
HalfB(r) == [k |-> "b", r |-> r]       \* second half

RecordLine(r) == <<HalfA(r), HalfB(r), NL>>
JunkLine == <<Garbage, NL>>
ScalarLine == <<Scalar, NL>>

Max(a, b) == IF a >= b THEN a ELSE b
Min(a, b) == IF a <= b THEN a ELSE b

\* ------------------------------------------------------- the tailing reader
\* json.loads(line) and the isinstance(parsed, dict) test: the index of the
\* record, or 0 when the line is skipped.
ParseLine(content) ==
  IF Len(content) = 2 /\ content[1].k = "a" /\ content[2].k = "b"
     /\ content[1].r = content[2].r
  THEN content[1].r
  ELSE 0

\* `for line in fh`: the lines of the bytes, the last one also when it has no
\* newline yet.
RECURSIVE SplitLines(_, _)
SplitLines(bytes, cur) ==
  IF bytes = <<>>
  THEN IF cur = <<>> THEN <<>> ELSE <<cur>>
  ELSE IF Head(bytes) = NL
       THEN <<cur>> \o SplitLines(Tail(bytes), <<>>)
       ELSE SplitLines(Tail(bytes), Append(cur, Head(bytes)))

RECURSIVE ParsedOf(_)
ParsedOf(lines) ==
  IF lines = <<>> THEN <<>>
  ELSE LET r == ParseLine(Head(lines))
       IN  (IF r = 0 THEN <<>> ELSE <<r>>) \o ParsedOf(Tail(lines))

\* A faulty variant of BytesFrom: the seek is left out.
BytesFromStart(bytes, offset_bytes) == bytes

\* fh.seek(offset_bytes) and the read to the end of the file.
BytesFrom(bytes, offset_bytes) ==
  IF offset_bytes >= Len(bytes) THEN <<>>
  ELSE SubSeq(bytes, offset_bytes + 1, Len(bytes))

\* A faulty variant of TellAfterRead: the offset is not advanced.
TellUnmoved(bytes, offset_bytes) == offset_bytes

\* A faulty variant of TellAfterRead: the offset moves only when the read
\* returned a record.
TellIfRecords(bytes, offset_bytes) ==
  IF ParsedOf(SplitLines(BytesFrom(bytes, offset_bytes), <<>>)) = <<>>
  THEN offset_bytes
  ELSE Max(offset_bytes, Len(bytes))

\* fh.tell() after the loop: the end of the file, or the place sought when
\* that lies beyond it.
TellAfterRead(bytes, offset_bytes) ==
  IF offset_bytes > Len(bytes) THEN offset_bytes ELSE Len(bytes)

\* A faulty variant of read_new_jsonl: a missing file resets the offset.
read_new_jsonl_reset(exists, bytes, offset_bytes) ==
  IF ~exists
  THEN [events |-> <<>>, offset |-> 0]
  ELSE [events |-> ParsedOf(SplitLines(BytesFrom(bytes, offset_bytes), <<>>)),
        offset |-> TellAfterRead(bytes, offset_bytes)]

\* _read_new_jsonl (lines 40-57).
read_new_jsonl(exists, bytes, offset_bytes) ==
  IF ~exists
  THEN [events |-> <<>>, offset |-> offset_bytes]
  ELSE [events |-> ParsedOf(SplitLines(BytesFrom(bytes, offset_bytes), <<>>)),
        offset |-> TellAfterRead(bytes, offset_bytes)]

\* ------------------------------------------------------- the privacy filter
Lower(c) == IF c = "A" THEN "a" ELSE c

RECURSIVE LStrip(_)
LStrip(s) == IF s # <<>> /\ Head(s) = " " THEN LStrip(Tail(s)) ELSE s

RECURSIVE RStrip(_)
RStrip(s) ==
  IF s # <<>> /\ s[Len(s)] = " " THEN RStrip(SubSeq(s, 1, Len(s) - 1)) ELSE s

\* str(event.get("domain", "")).strip().lower()
NormalizeDomain(raw) ==
  LET t == RStrip(LStrip(raw)) IN [i \in 1..Len(t) |-> Lower(t[i])]

\* The class opened by pat[1] = "[": the index of the "]" that closes it, or
\* 0 when none does.  A "!" and then a "]" right after the "[" belong to the
\* class.
ClassClose(pat) ==
  LET n == Len(pat)
      j1 == IF 2 <= n /\ pat[2] = "!" THEN 3 ELSE 2
      j2 == IF j1 <= n /\ pat[j1] = "]" THEN j1 + 1 ELSE j1
      closing == {j \in j2..n : pat[j] = "]"}
  IN  IF closing = {} THEN 0
      ELSE CHOOSE j \in closing : \A k \in closing : j <= k

\* The character c against the text between "[" and "]".
InClass(c, stuff) ==
  IF Head(stuff) = "!" THEN \A i \in 2..Len(stuff) : stuff[i] # c
  ELSE \E i \in 1..Len(stuff) : stuff[i] = c

\* A faulty variant of FnMatch: a pattern that matches a prefix of the name
\* counts as a match.
RECURSIVE FnMatchPrefix(_, _)
FnMatchPrefix(name, pat) ==
  IF pat = <<>> THEN TRUE
  ELSE IF Head(pat) = "*"
       THEN FnMatchPrefix(name, Tail(pat))
            \/ (name # <<>> /\ FnMatchPrefix(Tail(name), pat))
       ELSE IF Head(pat) = "[" /\ ClassClose(pat) > 0
            THEN /\ name # <<>>
                 /\ InClass(Head(name), SubSeq(pat, 2, ClassClose(pat) - 1))
                 /\ FnMatchPrefix(Tail(name),
                                  SubSeq(pat, ClassClose(pat) + 1, Len(pat)))
            ELSE /\ name # <<>>
                 /\ (Head(pat) = "?" \/ Head(pat) = Head(name))
                 /\ FnMatchPrefix(Tail(name), Tail(pat))

\* fnmatch.fnmatch(domain, pattern) on a POSIX system (no case folding): the
\* whole name against a pattern of literal characters, "*", "?", "[seq]" and
\* "[!seq]"; a "[" that no "]" closes is literal.  The characters of the
\* model leave out "-" (ranges) and "\".
RECURSIVE FnMatch(_, _)
FnMatch(name, pat) ==
  IF pat = <<>> THEN name = <<>>
  ELSE IF Head(pat) = "*"
       THEN FnMatch(name, Tail(pat))
            \/ (name # <<>> /\ FnMatch(Tail(name), pat))
       ELSE IF Head(pat) = "[" /\ ClassClose(pat) > 0
            THEN /\ name # <<>>
                 /\ InClass(Head(name), SubSeq(pat, 2, ClassClose(pat) - 1))
                 /\ FnMatch(Tail(name), SubSeq(pat, ClassClose(pat) + 1, Len(pat)))
            ELSE /\ name # <<>>
                 /\ (Head(pat) = "?" \/ Head(pat) = Head(name))
                 /\ FnMatch(Tail(name), Tail(pat))

\* A faulty variant of should_exclude_domain: no domain is excluded.
ExcludeNever(domain, exclude_patterns) == FALSE

\* exclude_patterns is a sequence of patterns; <<>> stands for None and [].
should_exclude_domain(domain, exclude_patterns) ==
  IF exclude_patterns = <<>> THEN FALSE
  ELSE \E i \in 1..Len(exclude_patterns) : FnMatch(domain, exclude_patterns[i])

\* The characters of the texts that are hashed; a salt is one symbol.
Alphabet ==
  <<"a", "b", "c", "k", "A", " ", ".", ":", "*", "?", "[", "]", "!",
    "sentineldns-local", "abc">>

CodeOf ==
  [c \in {Alphabet[i] : i \in 1..Len(Alphabet)} |->
     CHOOSE i \in 1..Len(Alphabet) : Alphabet[i] = c]

CharCode(c) == IF c \in DOMAIN CodeOf THEN CodeOf[c] ELSE 0

HexDigits ==
  <<"0", "1", "2", "3", "4", "5", "6", "7", "8", "9", "a", "b", "c", "d", "e", "f">>

\* hashlib.sha256(text).hexdigest(): 64 hexadecimal digits that depend on the
\* text alone.  The digits themselves stand in for the real ones: digit i is
\* drawn from the character of the text at position i (cyclically), which
\* keeps the texts of the model free of collisions.
Sha256Hex(text) ==
  [i \in 1..64 |->
     HexDigits[((CharCode(text[((i - 1) % Len(text)) + 1]) + i) % 16) + 1]]

\* digest[:20] of sha256(f"{hash_salt}:{domain}").
Sha256Hex20(hash_salt, domain) ==
  SubSeq(Sha256Hex(<<hash_salt, ":">> \o domain), 1, 20)

\* A faulty variant of redact_domain: the domain is passed through.
RedactNothing(domain, hash_domains, hash_salt) == domain

\* A faulty variant of redact_domain: the digest is not cut to 20 digits.
RedactWholeDigest(domain, hash_domains, hash_salt) ==
  IF ~hash_domains THEN domain
  ELSE <<"sha256:">> \o Sha256Hex(<<hash_salt, ":">> \o domain)

redact_domain(domain, hash_domains, hash_salt) ==
  IF ~hash_domains THEN domain
  ELSE <<"sha256:">> \o Sha256Hex20(hash_salt, domain)

\* ------------------------------------------------- the scoring collaborators
\* score_domain with a loaded bundle: a fixed function of the domain.  The
\* risk score stands for the classifier's output after the guardrails.
DecisionThreshold == 80

DomainRiskScore(domain) ==
  IF domain = <<"c">> THEN 82 ELSE IF domain = <<"b", "k">> THEN 50 ELSE 10

score_domain(domain) ==
  LET score == DomainRiskScore(domain)
      likely_cutoff == Max(75, Min(95, DecisionThreshold))
  IN  [risk_score |-> score,
       risk_label |-> IF score < 35 THEN "Normal"
                      ELSE IF score < likely_cutoff THEN "Suspicious"
                      ELSE "Likely Malicious",
       reason_tags |-> IF score < 35 THEN <<"pattern appears common">>
                       ELSE <<"high randomness in name">>]

\* ------------------------------------------------------ the window aggregator
Rat(n, d) == [num |-> n, den |-> d]

\* e1["ts"] < e2["ts"] on the strings: the local time, then the offset.
TsStrLess(t1, t2) ==
  \/ t1.inst + t1.off < t2.inst + t2.off
  \/ (t1.inst + t1.off = t2.inst + t2.off /\ t1.off < t2.off)

RECURSIVE InsertSorted(_, _)
InsertSorted(s, e) ==
  IF s = <<>> THEN <<e>>
  ELSE IF TsStrLess(e.ts, Head(s).ts) THEN <<e>> \o s
       ELSE <<Head(s)>> \o InsertSorted(Tail(s), e)

\* sorted(events, key=lambda e: e["ts"]): stable, on the timestamp strings.
RECURSIVE SortedByTs(_)
SortedByTs(events) ==
  IF events = <<>> THEN <<>>
  ELSE InsertSorted(SortedByTs(SubSeq(events, 1, Len(events) - 1)),
                    events[Len(events)])

\* A faulty variant of BucketEnd: the inner while takes one event only.
BucketOne(parsed, i, endInst) == i + 1

\* The inner while: the first index at or after i whose instant is not
\* before end.
RECURSIVE BucketEnd(_, _, _)
BucketEnd(parsed, i, endInst) ==
  IF i <= Len(parsed) /\ parsed[i].ts.inst < endInst
  THEN BucketEnd(parsed, i + 1, endInst)
  ELSE i

RECURSIVE SumSeq(_)
SumSeq(s) == IF s = <<>> THEN 0 ELSE Head(s) + SumSeq(Tail(s))

\* The order in which `for domain in unique_domains` visits a set.
RECURSIVE IterOrder(_)
IterOrder(S) ==
  IF S = {} THEN <<>>
  ELSE LET x == CHOOSE y \in S : TRUE IN <<x>> \o IterOrder(S \ {x})

\* deque.append with a maxlen: a full deque drops its left end.
DequeAppend(dq, x, maxlen) ==
  IF Len(dq) >= maxlen THEN Append(Tail(dq), x) ELSE Append(dq, x)

\* A faulty variant of MarkSeen: the domain is counted and enters the
\* history, but seen_set.add is left out.
RECURSIVE MarkSeenForgets(_, _, _, _)
MarkSeenForgets(order, k, st, maxlen) ==
  IF k > Len(order) THEN st
  ELSE IF order[k] \in st.seen_set
       THEN MarkSeenForgets(order, k + 1, st, maxlen)
       ELSE MarkSeenForgets(order, k + 1,
                     [newly_seen |-> st.newly_seen + 1,
                      seen_set |-> st.seen_set,
                      seen_history |-> DequeAppend(st.seen_history, order[k], maxlen)],
                     maxlen)

\* The for loop over unique_domains (lines 66-71) from position k on.
RECURSIVE MarkSeen(_, _, _, _)
MarkSeen(order, k, st, maxlen) ==
  IF k > Len(order) THEN st
  ELSE IF order[k] \in st.seen_set
       THEN MarkSeen(order, k + 1, st, maxlen)
       ELSE MarkSeen(order, k + 1,
                     [newly_seen |-> st.newly_seen + 1,
                      seen_set |-> st.seen_set \cup {order[k]},
                      seen_history |-> DequeAppend(st.seen_history, order[k], maxlen)],
                     maxlen)

\* Lines 72-75: with the deque full, its left end leaves the set.
EvictSeen(st, maxlen) ==
  IF Len(st.seen_history) = maxlen
  THEN [st EXCEPT !.seen_set = @ \ {st.seen_history[1]}]
  ELSE st

\* periodicity_score on the event counts of the windows (queries_per_min
\* times window_minutes: the scale cancels in the ratio).
Abs(x) == IF x < 0 THEN -x ELSE x

RECURSIVE MaxSeq(_)
MaxSeq(s) == IF Len(s) = 1 THEN s[1] ELSE Max(Head(s), MaxSeq(Tail(s)))

\* A faulty variant of periodicity_score: three values are taken as enough.
PeriodicityFromThree(values) ==
  LET m == Len(values)
      arr == [i \in 1..m |-> m * values[i] - SumSeq(values)]
      corr == [k \in 1..(m - 1) |->
                 SumSeq([i \in 1..(m - k) |-> arr[i] * arr[i + k]])]
      total == SumSeq([k \in 1..(m - 1) |-> Abs(corr[k])])
      peak == MaxSeq(corr)
  IN  IF m < 3 THEN Rat(0, 1)
      ELSE IF \A i \in 1..m : arr[i] = 0 THEN Rat(0, 1)
      ELSE IF peak <= 0 \/ total = 0 THEN Rat(0, 1)
      ELSE Rat(peak * (m - 1), total)

periodicity_score(values) ==
  LET m == Len(values)
      arr == [i \in 1..m |-> m * values[i] - SumSeq(values)]
      corr == [k \in 1..(m - 1) |->
                 SumSeq([i \in 1..(m - k) |-> arr[i] * arr[i + k]])]
      total == SumSeq([k \in 1..(m - 1) |-> Abs(corr[k])])
      peak == MaxSeq(corr)
  IN  IF m < 4 THEN Rat(0, 1)
      ELSE IF \A i \in 1..m : arr[i] = 0 THEN Rat(0, 1)
      ELSE IF peak <= 0 \/ total = 0 THEN Rat(0, 1)
      ELSE Rat(peak * (m - 1), total)

\* A faulty variant of WindowOf: the rates are taken per unique domain.
WindowOfPerDomain(parsed, i, j, st, domain_scores, window_minutes) ==
  LET start == parsed[i].ts
      bucket == SubSeq(parsed, i, j - 1)
      domains == [k \in 1..Len(bucket) |-> bucket[k].domain]
      unique_domains == {domains[k] : k \in 1..Len(domains)}
      nxdomain_count == Cardinality({k \in 1..Len(bucket) : bucket[k].rcode = "NXDOMAIN"})
      risks == [k \in 1..Len(domains) |->
                  IF domains[k] \in DOMAIN domain_scores
                  THEN domain_scores[domains[k]] ELSE 0]
      high_risk == Cardinality({k \in 1..Len(risks) : risks[k] > 70})
  IN  [window_start |-> start,
       window_end |-> Ts(start.inst + window_minutes, start.off),
       queries_per_min |-> Rat(Len(bucket), window_minutes),
       unique_domains |-> Cardinality(unique_domains),
       nxdomain_rate |-> Rat(nxdomain_count, Max(Cardinality(unique_domains), 1)),
       mean_domain_risk |-> Rat(SumSeq(risks), Max(Len(risks), 1)),
       high_risk_domain_ratio |-> Rat(high_risk, Max(Cardinality(unique_domains), 1)),
       newly_seen_ratio |-> Rat(st.newly_seen, Max(Cardinality(unique_domains), 1)),
       periodicity_score |-> Rat(0, 1)]

\* One window of the outer while (lines 51-89): the bucket parsed[i..j-1].
WindowOf(parsed, i, j, st, domain_scores, window_minutes) ==
  LET start == parsed[i].ts
      bucket == SubSeq(parsed, i, j - 1)
      domains == [k \in 1..Len(bucket) |-> bucket[k].domain]
      unique_domains == {domains[k] : k \in 1..Len(domains)}
      nxdomain_count == Cardinality({k \in 1..Len(bucket) : bucket[k].rcode = "NXDOMAIN"})
      risks == [k \in 1..Len(domains) |->
                  IF domains[k] \in DOMAIN domain_scores
                  THEN domain_scores[domains[k]] ELSE 0]
      high_risk == Cardinality({k \in 1..Len(risks) : risks[k] > 70})
  IN  [window_start |-> start,
       window_end |-> Ts(start.inst + window_minutes, start.off),
       queries_per_min |-> Rat(Len(bucket), window_minutes),
       unique_domains |-> Cardinality(unique_domains),
       nxdomain_rate |-> Rat(nxdomain_count, Max(Len(bucket), 1)),
       mean_domain_risk |-> Rat(SumSeq(risks), Max(Len(risks), 1)),
       high_risk_domain_ratio |-> Rat(high_risk, Max(Len(risks), 1)),
       newly_seen_ratio |-> Rat(st.newly_seen, Max(Cardinality(unique_domains), 1)),
       periodicity_score |-> Rat(0, 1)]

\* The outer while from index i on; st carries seen_history and seen_set.
RECURSIVE BuildWindows(_, _, _, _, _, _)
BuildWindows(parsed, i, st, domain_scores, window_minutes, maxlen) ==
  IF i > Len(parsed) THEN <<>>
  ELSE LET j == BucketEnd(parsed, i, parsed[i].ts.inst + window_minutes)
           uniq == {parsed[k].domain : k \in i..(j - 1)}
           marked == MarkSeen(IterOrder(uniq), 1,
                              [st EXCEPT !.newly_seen = 0], maxlen)
       IN  <<WindowOf(parsed, i, j, marked, domain_scores, window_minutes)>>
           \o BuildWindows(parsed, j, EvictSeen(marked, maxlen),
                           domain_scores, window_minutes, maxlen)

\* A faulty variant of AggregateWith: each window gets the score of the
\* windows up to it.
AggregateWithRunning(events, domain_scores, window_minutes, maxlen) ==
  IF events = <<>> THEN <<>>
  ELSE LET built == BuildWindows(SortedByTs(events), 1,
                                 [newly_seen |-> 0, seen_set |-> {},
                                  seen_history |-> <<>>],
                                 domain_scores, window_minutes, maxlen)
       IN  [k \in 1..Len(built) |->
              [built[k] EXCEPT !.periodicity_score =
                 periodicity_score(
                   [j \in 1..k |-> built[j].queries_per_min.num])]]

AggregateWith(events, domain_scores, window_minutes, maxlen) ==
  IF events = <<>> THEN <<>>
  ELSE LET built == BuildWindows(SortedByTs(events), 1,
                                 [newly_seen |-> 0, seen_set |-> {},
                                  seen_history |-> <<>>],
                                 domain_scores, window_minutes, maxlen)
           pscore == periodicity_score(
                       [k \in 1..Len(built) |-> built[k].queries_per_min.num])
       IN  [k \in 1..Len(built) |-> [built[k] EXCEPT !.periodicity_score = pscore]]

aggregate_events_to_windows(events, domain_scores, window_minutes) ==
  AggregateWith(events, domain_scores, window_minutes, SeenMaxLen)

\* The call raises instead of returning: fromisoformat raises ValueError on a
\* string that is no timestamp (lines 51, 54), and comparing a timestamp
\* without UTC offset with the end of a window that has one, or the other
\* way round, raises TypeError (line 54).
aggregate_raises(events) ==
  \/ \E i \in 1..Len(events) : events[i].ts.k \notin {"iso", "naive"}
  \/ \E i, j \in 1..Len(events) : events[i].ts.k = "iso" /\ events[j].ts.k = "naive"

\* score_window with no model file in the bundle (lines 80-83): the score is
\* 1 / (1 + exp(-(0.2 - raw) / 0.1)), below 0.45 when raw > 0.22007 and below
\* 0.75 when raw > 0.09014.  raw is kept as the fraction numer / denom.
score_window(stats) ==
  LET nx == stats.nxdomain_rate
      hr == stats.high_risk_domain_ratio
      ns == stats.newly_seen_ratio
      denom == nx.den * hr.den * ns.den
      numer == nx.num * hr.den * ns.den + hr.num * nx.den * ns.den
               + ns.num * nx.den * hr.den
      tags == (IF 5 * nx.num > nx.den THEN <<"elevated NXDOMAIN rate">> ELSE <<>>)
              \o (IF 4 * hr.num > hr.den THEN <<"many high-risk domains">> ELSE <<>>)
              \o (IF 5 * ns.num > 3 * ns.den THEN <<"many newly seen domains">> ELSE <<>>)
              \o (IF stats.periodicity_score.num > 2 * stats.periodicity_score.den
                  THEN <<"periodic query pattern detected">> ELSE <<>>)
  IN  [anomaly_score |-> Rat(numer, denom),
       anomaly_label |-> IF 100000 * numer > 22007 * denom THEN "Normal"
                         ELSE IF 100000 * numer > 9014 * denom THEN "Unusual"
                         ELSE "Likely Compromise",
       reason_tags |-> IF tags = <<>>
                       THEN <<"traffic appears within expected range">>
                       ELSE tags]

\* ----------------------------------------------------------- the CSV stores
\* A store is a file of lines; a line is the header (the field names) or a
\* data row.
NoStore == [exists |-> FALSE, lines |-> <<>>]
HeaderLine(fieldnames) == [hdr |-> TRUE, cells |-> fieldnames]
DataLine(row) == [hdr |-> FALSE, cells |-> row]

EventFields == <<"ts", "domain", "rcode", "qtype", "risk_score", "risk_label", "reason_tags">>
AlertFields == <<"window_start", "window_end", "anomaly_score", "anomaly_label",
                 "reason_tags", "summary", "recommended_action">>

\* A faulty variant of append_csv_row: the header is written on every call.
AppendWithHeader(store, row, fieldnames) ==
  [exists |-> TRUE,
   lines |-> store.lines \o <<HeaderLine(fieldnames), DataLine(row)>>]

append_csv_row(store, row, fieldnames) ==
  [exists |-> TRUE,
   lines |-> (IF ~store.exists THEN <<HeaderLine(fieldnames)>> ELSE store.lines)
             \o <<DataLine(row)>>]

\* datetime.fromisoformat(value) succeeds.
IsoParses(value) == value.k \in {"iso", "naive"}

\* A faulty variant of KeptRows: a row whose timestamp does not parse is
\* dropped.
RECURSIVE KeptRowsParsedOnly(_, _, _)
KeptRowsParsedOnly(rows, timestamp_col, cutoff) ==
  IF rows = <<>> THEN <<>>
  ELSE LET value == Head(rows).cells[timestamp_col]
           keep == IsoParses(value) /\ value.inst >= cutoff
       IN  (IF keep THEN <<Head(rows)>> ELSE <<>>)
           \o KeptRowsParsedOnly(Tail(rows), timestamp_col, cutoff)

\* The loop of lines 78-87 over rows none of which makes it raise.
RECURSIVE KeptRows(_, _, _)
KeptRows(rows, timestamp_col, cutoff) ==
  IF rows = <<>> THEN <<>>
  ELSE LET value == Head(rows).cells[timestamp_col]
           keep == ~IsoParses(value) \/ value.inst >= cutoff
       IN  (IF keep THEN <<Head(rows)>> ELSE <<>>)
           \o KeptRows(Tail(rows), timestamp_col, cutoff)

\* Line 86 raises TypeError, which nothing catches: ts >= cutoff compares a
\* timestamp without UTC offset with the offset-aware cutoff.
purge_raises(store, timestamp_col, retention_days) ==
  /\ store.exists
  /\ retention_days > 0
  /\ \E i \in 2..Len(store.lines) : store.lines[i].cells[timestamp_col].k = "naive"

\* The purge reaches line 88 and writes the file anew.
purge_rewrites(store, timestamp_col, retention_days) ==
  /\ store.exists
  /\ retention_days > 0
  /\ ~purge_raises(store, timestamp_col, retention_days)

\* A faulty variant of purge_old_rows_csv: a retention of 0 days purges.
PurgeAtZero(store, timestamp_col, retention_days, now) ==
  IF ~store.exists \/ retention_days < 0 THEN store
  ELSE IF purge_raises(store, timestamp_col, retention_days) THEN store
  ELSE LET cutoff == now - retention_days * MinutesPerDay
           fieldnames == IF store.lines = <<>> THEN <<>> ELSE Head(store.lines).cells
           rows == IF store.lines = <<>> THEN <<>> ELSE Tail(store.lines)
       IN  [exists |-> TRUE,
            lines |-> IF fieldnames = <<>> THEN <<>>
                      ELSE <<HeaderLine(fieldnames)>>
                           \o KeptRows(rows, timestamp_col, cutoff)]

\* purge_old_rows_csv at wall-clock time now (minutes): the store it leaves.
\* timestamp_col names the field of the rows that holds the timestamp.  When
\* the loop raises, the file has not been opened for writing yet.
purge_old_rows_csv(store, timestamp_col, retention_days, now) ==
  IF ~store.exists \/ retention_days <= 0 THEN store
  ELSE IF purge_raises(store, timestamp_col, retention_days) THEN store
  ELSE LET cutoff == now - retention_days * MinutesPerDay
           fieldnames == IF store.lines = <<>> THEN <<>> ELSE Head(store.lines).cells
           rows == IF store.lines = <<>> THEN <<>> ELSE Tail(store.lines)
       IN  [exists |-> TRUE,
            lines |-> IF fieldnames = <<>> THEN <<>>
                      ELSE <<HeaderLine(fieldnames)>>
                           \o KeptRows(rows, timestamp_col, cutoff)]

\* ------------------------------------------------------------------- state
VARIABLES
  file,             \* the bytes of input_file
  file_exists,      \* input_file.exists()
  pending,          \* the writer's bytes of a line begun and not yet flushed
  lines_written,    \* what the writer put into the present file, line by
                    \* line: a record's index, or 0 for a line that is none
  n_lines,          \* lines the writer has begun so far
  cfg,              \* the arguments of run_live_monitor
  pc,               \* "off", "running" (at the top of the while), "stopped"
                    \* (the loop was left at line 210) or "crashed" (an
                    \* exception left run_live_monitor)
  sessions,         \* calls of run_live_monitor so far
  offset_bytes,
  scored_events,
  emitted_windows,
  new_events,       \* the records of the last poll
  windows,          \* the result of the last aggregate_events_to_windows
  last_poll,        \* how the last poll found the file: "none", "missing",
                    \* "read", or "beyond" (offset_bytes past its end)
  output_csv,       \* the scored-event store
  alerts_csv,       \* the alert store
  stdout,           \* the lines printed
  delivered,        \* the records the polls of this session returned
  appended,         \* every alert row appended: its session, window and
                    \* label
  start_offset,     \* offset_bytes when the session began
  aligned,          \* the session began at a line boundary and each of its
                    \* polls found the file ending in a newline
  intact,           \* the file was not truncated or removed in this session
  reads,            \* polls of this session that returned records (up to 2)
  steps,            \* the parts of the loop body the last pass went through
  call,             \* a function called on its own: its arguments, and its
                    \* result once it has returned
  seen_history,     \* the deque of aggregate_events_to_windows
  seen_set          \* its membership set

vars == <<file, file_exists, pending, lines_written, n_lines, cfg, pc, sessions,
          offset_bytes, scored_events, emitted_windows, new_events, windows,
          last_poll, output_csv, alerts_csv, stdout, delivered, appended,
          start_offset, aligned, intact, reads, steps, call, seen_history,
          seen_set>>

fileVars == <<file, file_exists, pending, lines_written, n_lines>>
procVars == <<pc, sessions, offset_bytes, scored_events, emitted_windows,
              new_events, windows, last_poll, delivered, start_offset, reads,
              steps>>
outVars == <<output_csv, alerts_csv, stdout, appended>>
fnVars == <<call, seen_history, seen_set>>

\* No function has been called on its own.
NoCall == [fn |-> "none"]

\* ------------------------------------------------------------ configuration
HashSalt == "sentineldns-local"
ExcludeB == << <<"b", "*">> >>

CfgSet ==
  [hash_domains : BOOLEAN, hash_salt : {HashSalt},
   exclude_patterns : {<<>>, ExcludeB}, retention_days : {0, 1},
   once : BOOLEAN, start_at_end : BOOLEAN, window_minutes : {WindowMinutes}]

\* datetime.now() in minutes: soon after the events, or more than the
\* retention later.
NowSet == {4, MinutesPerDay + 4}

\* ------------------------------------------------------- the monitor loop
LogLine(tag, ts, domain, label) ==
  [tag |-> tag, ts |-> ts, domain |-> domain, label |-> label]

\* A faulty variant of ProcessEvent: the domain is scored as it is shown.
ProcessEventScoresShown(acc, r, c) ==
  LET event == RecordTable[r]
      domain == NormalizeDomain(event.domain)
      ts == event.ts
      rcode == IF event.rcode = "absent" THEN "NOERROR" ELSE event.rcode
      display_domain == redact_domain(domain, c.hash_domains, c.hash_salt)
      scored == score_domain(display_domain)
      row == [ts |-> ts, domain |-> display_domain, rcode |-> rcode,
              qtype |-> "A", risk_score |-> scored.risk_score,
              risk_label |-> scored.risk_label,
              reason_tags |-> scored.reason_tags]
  IN  IF domain = <<>> \/ ts.k = "none" THEN acc
      ELSE IF should_exclude_domain(domain, c.exclude_patterns) THEN acc
      ELSE [output_csv |-> append_csv_row(acc.output_csv, row, EventFields),
            scored_events |-> Append(acc.scored_events,
                                [ts |-> ts, domain |-> domain, rcode |-> rcode,
                                 score |-> scored.risk_score]),
            stdout |-> acc.stdout
                       \cup {LogLine("live", ts, display_domain, scored.risk_label)}]

\* The body of `for event in new_events` (lines 116-158) for the record r;
\* acc holds output_csv, scored_events and stdout.
ProcessEvent(acc, r, c) ==
  LET event == RecordTable[r]
      domain == NormalizeDomain(event.domain)
      ts == event.ts
      rcode == IF event.rcode = "absent" THEN "NOERROR" ELSE event.rcode
      scored == score_domain(domain)
      display_domain == redact_domain(domain, c.hash_domains, c.hash_salt)
      row == [ts |-> ts, domain |-> display_domain, rcode |-> rcode,
              qtype |-> "A", risk_score |-> scored.risk_score,
              risk_label |-> scored.risk_label,
              reason_tags |-> scored.reason_tags]
  IN  IF domain = <<>> \/ ts.k = "none" THEN acc
      ELSE IF should_exclude_domain(domain, c.exclude_patterns) THEN acc
      ELSE [output_csv |-> append_csv_row(acc.output_csv, row, EventFields),
            scored_events |-> Append(acc.scored_events,
                                [ts |-> ts, domain |-> domain, rcode |-> rcode,
                                 score |-> scored.risk_score]),
            stdout |-> acc.stdout
                       \cup {LogLine("live", ts, display_domain, scored.risk_label)}]

RECURSIVE DrainEvents(_, _, _)
DrainEvents(events, acc, c) ==
  IF events = <<>> THEN acc
  ELSE DrainEvents(Tail(events), ProcessEvent(acc, Head(events), c), c)

\* {item["domain"]: item["score"] for item in scored_events}: the last wins.
DomainScores(scored) ==
  [d \in {scored[i].domain : i \in 1..Len(scored)} |->
     LET last == CHOOSE i \in 1..Len(scored) :
                   /\ scored[i].domain = d
                   /\ \A j \in (i + 1)..Len(scored) : scored[j].domain # d
     IN  scored[last].score]

EventRows(scored) ==
  [i \in 1..Len(scored) |->
     [ts |-> scored[i].ts, domain |-> scored[i].domain,
      rcode |-> scored[i].rcode, qtype |-> "A"]]

\* A faulty variant of AlreadyEmitted: the membership test is left out.
NeverEmitted(window_end, emitted) == FALSE

\* window.window_end in emitted_windows (line 168).
AlreadyEmitted(window_end, emitted) == window_end \in emitted

\* A faulty variant of EmitWindow: a window labelled "Normal" gets no row.
EmitWindowAlertsOnly(acc, window, session) ==
  IF AlreadyEmitted(window.window_end, acc.emitted_windows) THEN acc
  ELSE LET result == score_window(window)
           alert_row == [window_start |-> window.window_start,
                         window_end |-> window.window_end,
                         anomaly_score |-> result.anomaly_score,
                         anomaly_label |-> result.anomaly_label,
                         reason_tags |-> result.reason_tags,
                         summary |-> <<window.queries_per_min, window.nxdomain_rate>>,
                         recommended_action |-> result.anomaly_label]
       IN  IF result.anomaly_label = "Normal"
           THEN [acc EXCEPT !.emitted_windows = @ \cup {window.window_end}]
           ELSE [alerts_csv |-> append_csv_row(acc.alerts_csv, alert_row, AlertFields),
                 emitted_windows |-> acc.emitted_windows \cup {window.window_end},
                 stdout |-> acc.stdout
                            \cup {LogLine("live-alert", window.window_start, <<>>,
                                          result.anomaly_label)},
                 appended |-> Append(acc.appended,
                                [session |-> session,
                                 window_start |-> window.window_start,
                                 window_end |-> window.window_end,
                                 anomaly_label |-> result.anomaly_label])]

\* The body of `for window in windows` (lines 168-204); acc holds alerts_csv,
\* emitted_windows, stdout and appended.
EmitWindow(acc, window, session) ==
  IF AlreadyEmitted(window.window_end, acc.emitted_windows) THEN acc
  ELSE LET result == score_window(window)
           alert_row == [window_start |-> window.window_start,
                         window_end |-> window.window_end,
                         anomaly_score |-> result.anomaly_score,
                         anomaly_label |-> result.anomaly_label,
                         reason_tags |-> result.reason_tags,
                         summary |-> <<window.queries_per_min, window.nxdomain_rate>>,
                         recommended_action |-> result.anomaly_label]
       IN  [alerts_csv |-> append_csv_row(acc.alerts_csv, alert_row, AlertFields),
            emitted_windows |-> acc.emitted_windows \cup {window.window_end},
            stdout |-> IF result.anomaly_label # "Normal"
                       THEN acc.stdout
                            \cup {LogLine("live-alert", window.window_start, <<>>,
                                          result.anomaly_label)}
                       ELSE acc.stdout,
            appended |-> Append(acc.appended,
                                [session |-> session,
                                 window_start |-> window.window_start,
                                 window_end |-> window.window_end,
                                 anomaly_label |-> result.anomaly_label])]

RECURSIVE EmitWindows(_, _, _)
EmitWindows(ws, acc, session) ==
  IF ws = <<>> THEN acc
  ELSE EmitWindows(Tail(ws), EmitWindow(acc, Head(ws), session), session)

EndsWithNewline(bytes) == bytes = <<>> \/ bytes[Len(bytes)] = NL

CountNewlines(bytes) == Cardinality({i \in 1..Len(bytes) : bytes[i] = NL})

\* Lines 105-110: a call of run_live_monitor.
Start(max_sessions) ==
  /\ pc \in {"off", "stopped", "crashed"}
  /\ sessions < max_sessions
  /\ sessions' = sessions + 1
  /\ pc' = "running"
  /\ offset_bytes' = IF cfg.start_at_end /\ file_exists THEN Len(file) ELSE 0
  /\ scored_events' = <<>>
  /\ emitted_windows' = {}
  /\ new_events' = <<>>
  /\ windows' = <<>>
  /\ last_poll' = "none"
  /\ delivered' = <<>>
  /\ reads' = 0
  /\ steps' = <<>>
  /\ start_offset' = offset_bytes'
  /\ aligned' = (offset_bytes' = 0 \/ file[offset_bytes'] = NL)
  /\ intact' = TRUE
  /\ UNCHANGED <<fnVars, fileVars, cfg, outVars>>

\* What a pass of the loop reads and writes besides the poll, as a record.
PassState(out, scored, printed, alerts, emitted, rows, ws) ==
  [output_csv |-> out, scored_events |-> scored, stdout |-> printed,
   alerts_csv |-> alerts, emitted_windows |-> emitted, appended |-> rows,
   windows |-> ws]

\* The names of the parts of the loop body.
PollStep == "poll"                  \* line 113
EventsStep == "events"              \* lines 115-158
WindowsStep == "windows"            \* lines 160-204
PurgeEventsStep == "purge_events"   \* line 206
PurgeAlertsStep == "purge_alerts"   \* line 207

\* Lines 114-204 of a pass that polled events: the state they leave, the
\* parts gone through, and whether an exception ended the pass.  Nothing
\* catches what aggregate_events_to_windows raises; the event rows of the
\* pass are in the store by then.
PassAppends(st, c, events, session) ==
  IF events = <<>>
  THEN [st |-> st, steps |-> <<PollStep>>, raised |-> FALSE]
  ELSE LET drained == DrainEvents(events,
                        [output_csv |-> st.output_csv,
                         scored_events |-> st.scored_events,
                         stdout |-> st.stdout], c)
           event_rows == EventRows(drained.scored_events)
           st1 == [st EXCEPT !.output_csv = drained.output_csv,
                             !.scored_events = drained.scored_events,
                             !.stdout = drained.stdout]
       IN  IF aggregate_raises(event_rows)
           THEN [st |-> st1, steps |-> <<PollStep, EventsStep>>, raised |-> TRUE]
           ELSE LET ws == aggregate_events_to_windows(event_rows,
                            DomainScores(drained.scored_events),
                            c.window_minutes)
                    emitted == EmitWindows(ws,
                                 [alerts_csv |-> st.alerts_csv,
                                  emitted_windows |-> st.emitted_windows,
                                  stdout |-> drained.stdout,
                                  appended |-> st.appended], session)
                IN  [st |-> [st1 EXCEPT !.windows = ws,
                                        !.alerts_csv = emitted.alerts_csv,
                                        !.emitted_windows = emitted.emitted_windows,
                                        !.stdout = emitted.stdout,
                                        !.appended = emitted.appended],
                     steps |-> <<PollStep, EventsStep, WindowsStep>>,
                     raised |-> FALSE]

\* Lines 206-207, inside `if new_events:`, at the wall-clock times now1 and
\* now2.  Nothing catches what purge_old_rows_csv raises.
PassPurges(mid, c, now1, now2) ==
  IF mid.raised \/ WindowsStep \notin {mid.steps[i] : i \in 1..Len(mid.steps)}
  THEN mid
  ELSE IF purge_raises(mid.st.output_csv, "ts", c.retention_days) THEN
    [mid EXCEPT !.raised = TRUE]
  ELSE LET purged == [mid EXCEPT
                        !.st.output_csv = purge_old_rows_csv(@, "ts",
                                            c.retention_days, now1),
                        !.steps = Append(@, PurgeEventsStep)]
       IN  IF purge_raises(purged.st.alerts_csv, "window_end", c.retention_days)
           THEN [purged EXCEPT !.raised = TRUE]
           ELSE [purged EXCEPT
                   !.st.alerts_csv = purge_old_rows_csv(@, "window_end",
                                       c.retention_days, now2),
                   !.steps = Append(@, PurgeAlertsStep)]

\* A faulty variant of AfterPass: the loop is never left.
AfterPassLoops(once) == "running"

\* Lines 209-211: break in single-pass mode, else sleep and loop.
AfterPass(once) == IF once THEN "stopped" ELSE "running"

\* One pass of the while loop (lines 113-211).  With twin, a second session
\* that is given the same file, the same polls and the same clock under the
\* configuration call.cfg makes its pass in the same step; call.st holds
\* what it has written.
CycleWith(twin) ==
  /\ pc = "running"
  /\ UNCHANGED <<fileVars, cfg, sessions, start_offset, intact>>
  /\ \E polled \in {read_new_jsonl(file_exists, file, offset_bytes)} :
     \E mid \in {PassAppends(PassState(output_csv, scored_events, stdout,
                                       alerts_csv, emitted_windows, appended,
                                       windows),
                             cfg, polled.events, sessions)} :
     \E twin_mid \in {IF twin
                      THEN PassAppends(call.st, call.cfg, polled.events, sessions)
                      ELSE mid} :
     \E now1 \in NowSet, now2 \in NowSet :
     \E fin \in {PassPurges(mid, cfg, now1, now2)} :
       /\ now1 <= now2
       /\ new_events' = polled.events
       /\ offset_bytes' = polled.offset
       /\ last_poll' = IF ~file_exists THEN "missing"
                       ELSE IF offset_bytes > Len(file) THEN "beyond"
                       ELSE "read"
       /\ delivered' = delivered \o polled.events
       /\ reads' = IF polled.events # <<>> THEN Min(reads + 1, 2) ELSE reads
       /\ aligned' = (aligned /\ EndsWithNewline(file))
       /\ scored_events' = fin.st.scored_events
       /\ windows' = fin.st.windows
       /\ emitted_windows' = fin.st.emitted_windows
       /\ stdout' = fin.st.stdout
       /\ appended' = fin.st.appended
       /\ output_csv' = fin.st.output_csv
       /\ alerts_csv' = fin.st.alerts_csv
       /\ steps' = fin.steps
       /\ pc' = IF fin.raised THEN "crashed" ELSE AfterPass(cfg.once)
       /\ IF twin
          THEN /\ call' = [call EXCEPT
                             !.st = PassPurges(twin_mid, call.cfg, now1, now2).st,
                             !.raised = PassPurges(twin_mid, call.cfg, now1, now2).raised]
               /\ UNCHANGED <<seen_history, seen_set>>
          ELSE UNCHANGED fnVars

Cycle == CycleWith(FALSE)

\* The process is ended from outside between two passes.
Kill ==
  /\ pc = "running"
  /\ pc' = "off"
  /\ UNCHANGED <<fnVars, fileVars, cfg, sessions, offset_bytes, scored_events,
                 emitted_windows, new_events, windows, last_poll, delivered,
                 start_offset, reads, steps, aligned, intact, outVars>>

\* ---------------------------------------------------------------- the writer
LineOf(kind) ==
  IF kind > 0 THEN RecordLine(kind)
  ELSE IF kind = 0 THEN JunkLine ELSE ScalarLine

\* A whole line reaches the file at once.
WriteLine(kind, max_lines) ==
  /\ pending = <<>>
  /\ n_lines < max_lines
  /\ n_lines' = n_lines + 1
  /\ file' = file \o LineOf(kind)
  /\ file_exists' = TRUE
  /\ lines_written' = Append(lines_written, Max(kind, 0))
  /\ UNCHANGED <<fnVars, pending, cfg, procVars, aligned, intact, outVars>>

\* The first k bytes of a record's line reach the file; the rest is pending.
BeginLine(r, k, max_lines) ==
  /\ pending = <<>>
  /\ n_lines < max_lines
  /\ n_lines' = n_lines + 1
  /\ file' = file \o SubSeq(RecordLine(r), 1, k)
  /\ pending' = SubSeq(RecordLine(r), k + 1, 3)
  /\ file_exists' = TRUE
  /\ lines_written' = Append(lines_written, r)
  /\ UNCHANGED <<fnVars, cfg, procVars, aligned, intact, outVars>>

\* The rest of the line begun reaches the file.
FinishLine ==
  /\ pending # <<>>
  /\ file' = file \o pending
  /\ pending' = <<>>
  /\ UNCHANGED <<fnVars, file_exists, lines_written, n_lines, cfg, procVars, aligned,
                 intact, outVars>>

\* The file is truncated to nothing (or replaced by an empty one).
Truncate ==
  /\ file_exists
  /\ file # <<>>
  /\ file' = <<>>
  /\ pending' = <<>>
  /\ lines_written' = <<>>
  /\ intact' = FALSE
  /\ UNCHANGED <<fnVars, file_exists, n_lines, cfg, procVars, aligned, outVars>>

\* The file is removed (rotated away).
Remove ==
  /\ file_exists
  /\ file_exists' = FALSE
  /\ file' = <<>>
  /\ pending' = <<>>
  /\ lines_written' = <<>>
  /\ intact' = FALSE
  /\ UNCHANGED <<fnVars, n_lines, cfg, procVars, aligned, outVars>>

\* ------------------------------------------- functions called on their own
progVars == <<fileVars, cfg, procVars, aligned, intact, outVars>>

RECURSIVE SeqsUpTo(_, _)
SeqsUpTo(S, n) ==
  IF n = 0 THEN {<<>>}
  ELSE LET shorter == SeqsUpTo(S, n - 1)
       IN  shorter \cup {Append(t, c) : t \in {x \in shorter : Len(x) = n - 1},
                                        c \in S}

NameChars == {"a", "b", "A"}
PatChars == {"a", "*", "?", "[", "]", "!"}
Names == SeqsUpTo(NameChars, MaxNameLen)
Patterns == SeqsUpTo(PatChars, MaxPatLen)
Salts == {HashSalt, "abc"}

\* The calls of redact_domain and of should_exclude_domain; exclude_patterns
\* is None or [], one pattern, or the pattern "b" and one more.
RedactCalls ==
  [fn : {"redact"}, domain : Names, hash_domains : BOOLEAN, hash_salt : Salts,
   results : {<<>>}]

ExcludeCalls ==
  [fn : {"exclude"}, domain : Names,
   exclude_patterns : {<<>>} \cup {<<q>> : q \in Patterns}
                             \cup {<< <<"b">>, q >> : q \in Patterns},
   results : {<<>>}]

\* redact_domain is called, up to twice with the same arguments.
Redact ==
  /\ call.fn = "redact"
  /\ Len(call.results) < 2
  /\ call' = [call EXCEPT !.results =
                 Append(@, redact_domain(call.domain, call.hash_domains,
                                         call.hash_salt))]
  /\ UNCHANGED <<progVars, seen_history, seen_set>>

Exclude ==
  /\ call.fn = "exclude"
  /\ call.results = <<>>
  /\ call' = [call EXCEPT !.results =
                 <<should_exclude_domain(call.domain, call.exclude_patterns)>>]
  /\ UNCHANGED <<progVars, seen_history, seen_set>>

\* The timestamps of the rows of a store: aware ones (older than, at and
\* after the cutoff of a late purge), an empty one, one that is no timestamp
\* and one without UTC offset.
StoreTs == {Ts(0, 0), Ts(4, 0), NoTs, BadTs, NaiveTs(0)}
RetentionSet == {-1, 0, 1}

\* The row the loop writes for an event of domain "a" with timestamp ts
\* (lines 139-149).
EventRow(ts) ==
  LET scored == score_domain(<<"a">>)
  IN  [ts |-> ts, domain |-> <<"a">>, rcode |-> "NOERROR", qtype |-> "A",
       risk_score |-> scored.risk_score, risk_label |-> scored.risk_label,
       reason_tags |-> scored.reason_tags]

\* _append_csv_row on the scored-event store.
AppendRow(ts) ==
  /\ Len(output_csv.lines) <= MaxRows
  /\ output_csv' = append_csv_row(output_csv, EventRow(ts), EventFields)
  /\ call' = [fn |-> "append", before |-> output_csv]
  /\ UNCHANGED <<fileVars, cfg, procVars, aligned, intact, alerts_csv, stdout,
                 appended, seen_history, seen_set>>

\* purge_old_rows_csv on the scored-event store.
PurgeRows(retention_days, now) ==
  /\ output_csv' = purge_old_rows_csv(output_csv, "ts", retention_days, now)
  /\ call' = [fn |-> "purge", before |-> output_csv,
              retention_days |-> retention_days, now |-> now,
              raised |-> purge_raises(output_csv, "ts", retention_days),
              rewritten |-> purge_rewrites(output_csv, "ts", retention_days)]
  /\ UNCHANGED <<fileVars, cfg, procVars, aligned, intact, alerts_csv, stdout,
                 appended, seen_history, seen_set>>

\* The events of a batch: timestamps with different UTC offsets (the second
\* of the pair), so that the order of the strings is not that of the
\* instants, and one without offset.
EventUniverse ==
  { [ts |-> Ts(0, 0), domain |-> <<"a">>, rcode |-> "NOERROR", qtype |-> "A"],
    [ts |-> Ts(1, 0), domain |-> <<"c">>, rcode |-> "NXDOMAIN", qtype |-> "A"],
    [ts |-> Ts(3, 0), domain |-> <<"a">>, rcode |-> "NXDOMAIN", qtype |-> "A"],
    [ts |-> Ts(2, 2), domain |-> <<"c">>, rcode |-> "NOERROR", qtype |-> "A"],
    [ts |-> Ts(5, 0), domain |-> <<"b">>, rcode |-> "NOERROR", qtype |-> "A"],
    [ts |-> NaiveTs(1), domain |-> <<"a">>, rcode |-> "NXDOMAIN", qtype |-> "A"] }

\* domain_scores: no score, or a score for "a" and "c".
ScoreMaps ==
  { [d \in {} |-> 0],
    [d \in {<<"a">>, <<"c">>} |-> IF d = <<"c">> THEN 82 ELSE 10],
    [d \in {<<"a">>, <<"c">>} |-> IF d = <<"c">> THEN 70 ELSE 71] }

AggregateCalls ==
  [fn : {"aggregate"}, events : SeqsUpTo(EventUniverse, MaxEvents),
   domain_scores : ScoreMaps, window_minutes : {1, WindowMinutes},
   done : {FALSE}, raised : {FALSE}, result : {<<>>}]

\* aggregate_events_to_windows is called.
Aggregate ==
  /\ call.fn = "aggregate"
  /\ ~call.done
  /\ call' = [call EXCEPT
                 !.done = TRUE,
                 !.raised = aggregate_raises(call.events),
                 !.result = IF aggregate_raises(call.events) THEN <<>>
                            ELSE aggregate_events_to_windows(
                                   call.events, call.domain_scores,
                                   call.window_minutes)]
  /\ UNCHANGED <<progVars, seen_history, seen_set>>

\* A batch with counts[i] events in its i-th window, the windows following
\* each other without a gap.
RECURSIVE PeriodicBatch(_, _)
PeriodicBatch(counts, window_minutes) ==
  IF counts = <<>> THEN <<>>
  ELSE LET m == Len(counts)
           e == [ts |-> Ts((m - 1) * window_minutes, 0), domain |-> <<"a">>,
                 rcode |-> "NOERROR", qtype |-> "A"]
       IN  PeriodicBatch(SubSeq(counts, 1, m - 1), window_minutes)
           \o [i \in 1..counts[m] |-> e]

PeriodicCalls ==
  { [fn |-> "aggregate", events |-> PeriodicBatch(counts, WindowMinutes),
     domain_scores |-> [d \in {} |-> 0], window_minutes |-> WindowMinutes,
     done |-> FALSE, raised |-> FALSE, result |-> <<>>] :
    counts \in SeqsUpTo(1..MaxPerWindow, MaxWindows) }

\* The domains of the runs that fill seen_history.
SeenDomains == {<<"a">>, <<"b">>, <<"c">>, <<"k">>}

\* The orders in which the for loop of line 67 may visit the unique domains
\* of a window: every order of every set of up to MaxUnique domains.
VisitOrders ==
  {order \in SeqsUpTo(SeenDomains, MaxUnique) :
     /\ order # <<>>
     /\ \A i, j \in 1..Len(order) : i # j => order[i] # order[j]}

\* Lines 65-75 for one window of the outer while, with a deque of maxlen
\* SeenCapacity.
ObserveWindow(order) ==
  LET marked == MarkSeen(order, 1,
                         [newly_seen |-> 0, seen_set |-> seen_set,
                          seen_history |-> seen_history], SeenCapacity)
      after == EvictSeen(marked, SeenCapacity)
  IN  /\ seen_history' = after.seen_history
      /\ seen_set' = after.seen_set
      /\ call' = [fn |-> "window", order |-> order,
                  newly_seen |-> marked.newly_seen,
                  before_history |-> seen_history, before_set |-> seen_set]
      /\ UNCHANGED progVars

\* ------------------------------------------------------- the specifications
InitAll(cfgs, calls) ==
  /\ file = <<>>
  /\ file_exists = FALSE
  /\ pending = <<>>
  /\ lines_written = <<>>
  /\ n_lines = 0
  /\ cfg \in cfgs
  /\ pc = "off"
  /\ sessions = 0
  /\ offset_bytes = 0
  /\ scored_events = <<>>
  /\ emitted_windows = {}
  /\ new_events = <<>>
  /\ windows = <<>>
  /\ last_poll = "none"
  /\ output_csv = NoStore
  /\ alerts_csv = NoStore
  /\ stdout = {}
  /\ delivered = <<>>
  /\ appended = <<>>
  /\ start_offset = 0
  /\ aligned = TRUE
  /\ intact = TRUE
  /\ reads = 0
  /\ steps = <<>>
  /\ call \in calls
  /\ seen_history = <<>>
  /\ seen_set = {}

InitWith(cfgs) == InitAll(cfgs, {NoCall})

\* One session over a file that grows by whole lines.
Init ==
  InitWith({c \in CfgSet : /\ c.exclude_patterns = ExcludeB
                           /\ c.retention_days = 1
                           /\ ~c.once
                           /\ ~c.start_at_end})

Next ==
  \/ \E kind \in RecordIds : WriteLine(kind, MaxLines)
  \/ Start(1)
  \/ Cycle

Spec == Init /\ [][Next]_vars

\* The monitor is stopped and started again over the same files.
InitRestart ==
  InitWith({c \in CfgSet : /\ ~c.hash_domains
                           /\ c.exclude_patterns = <<>>
                           /\ c.retention_days = 0})

NextRestart ==
  \/ \E kind \in {1, 4, 5} : WriteLine(kind, RestartLines)
  \/ Start(MaxSessions)
  \/ Cycle
  \/ Kill

SpecRestart == InitRestart /\ [][NextRestart]_vars

\* One session; the writer flushes lines in parts, writes lines that are no
\* records, and the file is truncated or removed under the reader.
InitTail ==
  InitWith({c \in CfgSet : /\ ~c.hash_domains
                           /\ c.exclude_patterns = <<>>
                           /\ c.retention_days = 0
                           /\ ~c.once})

NextTail ==
  \/ \E kind \in {1, 4, 0, -1} : WriteLine(kind, TailLines)
  \/ \E r \in {1, 4}, k \in 1..2 : BeginLine(r, k, TailLines)
  \/ FinishLine
  \/ Truncate
  \/ Remove
  \/ Start(1)
  \/ Cycle

SpecTail == InitTail /\ [][NextTail]_vars

\* The configuration of a monitor that is not run.
DefaultCfg ==
  [hash_domains |-> FALSE, hash_salt |-> HashSalt, exclude_patterns |-> <<>>,
   retention_days |-> 0, once |-> FALSE, start_at_end |-> FALSE,
   window_minutes |-> WindowMinutes]

\* The privacy functions on their own.
InitPrivacy == InitAll({DefaultCfg}, RedactCalls \cup ExcludeCalls)

NextPrivacy ==
  \/ Redact
  \/ Exclude

SpecPrivacy == InitPrivacy /\ [][NextPrivacy]_vars

\* A store on its own: rows are appended and the purger runs, in any order.
InitStore == InitAll({DefaultCfg}, {NoCall})

NextStore ==
  \/ \E ts \in StoreTs : AppendRow(ts)
  \/ \E retention_days \in RetentionSet, now \in NowSet :
       PurgeRows(retention_days, now)

SpecStore == InitStore /\ [][NextStore]_vars

\* The aggregator on its own, one call on one batch.
InitAggregate == InitAll({DefaultCfg}, AggregateCalls)

NextAggregate == Aggregate

SpecAggregate == InitAggregate /\ [][NextAggregate]_vars

\* The seen-domain history over the windows of one call of the aggregator.
InitSeen == InitAll({DefaultCfg}, {NoCall})

NextSeen == \E order \in VisitOrders : ObserveWindow(order)

SpecSeen == InitSeen /\ [][NextSeen]_vars

\* The aggregator on batches of up to MaxWindows windows.
InitPeriodic == InitAll({DefaultCfg}, PeriodicCalls)

NextPeriodic == Aggregate

SpecPeriodic == InitPeriodic /\ [][NextPeriodic]_vars

\* One session, and with it a second one that differs from it in
\* hash_domains or in hash_salt only.
TwinRecordIds ==
  {r \in 1..Len(RecordTable) :
     /\ RecordTable[r].ts.k = "iso" /\ RecordTable[r].ts.off = 0
     /\ RecordTable[r].rcode = "NOERROR"
     /\ Len(RecordTable[r].domain) = 1}

TwinCfgs(c) ==
  {[c EXCEPT !.hash_domains = ~@], [c EXCEPT !.hash_salt = "abc"]}

InitTwin ==
  /\ InitAll({c \in CfgSet : /\ c.exclude_patterns = <<>>
                             /\ ~c.once
                             /\ ~c.start_at_end},
             {[fn |-> "twin", cfg |-> c2, raised |-> FALSE,

               st |-> PassState(NoStore, <<>>, {}, NoStore, {}, <<>>, <<>>)] :
                c2 \in UNION {TwinCfgs(c) : c \in CfgSet}})
  /\ call.cfg \in TwinCfgs(cfg)

NextTwin ==
  \/ \E kind \in TwinRecordIds : WriteLine(kind, TwinLines)
  \/ Start(1)
  \/ CycleWith(TRUE)

SpecTwin == InitTwin /\ [][NextTwin]_vars

\* One session over a file with lines that are no records and records whose
\* "ts" is missing, is no timestamp, or has no UTC offset.
InitFaulty ==
  InitWith({c \in CfgSet : /\ ~c.hash_domains
                           /\ c.exclude_patterns = <<>>
                           /\ ~c.once
                           /\ ~c.start_at_end})

FaultyKinds ==
  {0} \cup BadTsIds \cup NaiveTsIds
      \cup {r \in RecordIds : RecordTable[r].rcode = "NOERROR"
                              /\ Len(RecordTable[r].domain) < 2}

NextFaulty ==
  \/ \E kind \in FaultyKinds : WriteLine(kind, FaultyLines)
  \/ Start(1)
  \/ Cycle

SpecFaulty == InitFaulty /\ [][NextFaulty]_vars

\* ------------------------------------------------------------------ claims
DataRows(store) == {i \in 1..Len(store.lines) : ~store.lines[i].hdr}

\* The records among the lines the writer wrote.
RECURSIVE RecordsOf(_)
RecordsOf(lines) ==
  IF lines = <<>> THEN <<>>
  ELSE (IF Head(lines) > 0 THEN <<Head(lines)>> ELSE <<>>) \o RecordsOf(Tail(lines))

\* C1: within one session no two alert rows with the same window_end are
\* appended to the alert store, however many cycles recompute the window.
C1_OneRowPerWindowEnd ==
  \A i, j \in 1..Len(appended) :
    (i # j /\ appended[i].session = appended[j].session)
      => appended[i].window_end # appended[j].window_end

\* C1: a second cycle has recomputed a window whose row an earlier cycle
\* appended, and further rows were appended since.
C1_Witness ==
  /\ reads = 2
  /\ Len(appended) >= 2
  /\ windows # <<>>
  /\ windows[1].window_end = appended[1].window_end

\* C2 as stated: a window whose row was appended before a restart is not
\* appended again by a later session.
C2_OnceAcrossRestart ==
  \A i, j \in 1..Len(appended) :
    appended[i].session < appended[j].session
      => appended[i].window_end # appended[j].window_end

\* C2 amended: emission is once per session only; the alert store never holds
\* more rows with one window_end than sessions have been started.
C2_OncePerSession ==
  \A i \in DataRows(alerts_csv) :
    Cardinality({j \in DataRows(alerts_csv) :
                   alerts_csv.lines[j].cells.window_end
                     = alerts_csv.lines[i].cells.window_end}) <= sessions

\* C2: after a restart the alert store holds two rows of one window.
C2_Witness ==
  /\ sessions = 2
  /\ \E i, j \in DataRows(alerts_csv) :
       /\ i < j
       /\ alerts_csv.lines[i].cells.window_end = alerts_csv.lines[j].cells.window_end

\* The windows of one poll over the whole file by a fresh session.
BatchWindows ==
  LET polled == read_new_jsonl(TRUE, file, 0)
      drained == DrainEvents(polled.events,
                   [output_csv |-> NoStore, scored_events |-> <<>>, stdout |-> {}],
                   cfg)
  IN  IF polled.events = <<>> THEN <<>>
      ELSE aggregate_events_to_windows(EventRows(drained.scored_events),
                                       DomainScores(drained.scored_events),
                                       cfg.window_minutes)

\* C3: once a session that began at offset 0 has read a file grown by whole
\* lines to its end, in any number of polls, its windows are those of one
\* poll over the whole file.
C3_IncrementalEqualsBatch ==
  (pc = "running" /\ start_offset = 0 /\ aligned /\ intact
   /\ offset_bytes = Len(file))
    => windows = BatchWindows

\* C3: the file was read in two polls that both returned records, and its
\* events fall into two windows.
C3_Witness ==
  /\ pc = "running" /\ start_offset = 0 /\ aligned /\ intact
  /\ offset_bytes = Len(file)
  /\ reads = 2
  /\ Len(windows) >= 2

\* The complete lines of the file that end at or below an offset.
LinesBelow(offset) == CountNewlines(SubSeq(file, 1, offset))

\* C4: while the file grows by whole lines, the polls of a session return
\* each record line written after the session's first offset exactly once
\* and in file order, and the offset is the end of the lines read.
C4_EachRecordOnceInOrder ==
  (pc = "running" /\ aligned /\ intact)
    => /\ offset_bytes <= Len(file)
       /\ (offset_bytes = 0 \/ file[offset_bytes] = NL)
       /\ delivered = RecordsOf(SubSeq(lines_written, LinesBelow(start_offset) + 1,
                                       LinesBelow(offset_bytes)))

\* C4: two polls returned records, a line that is no record lay between
\* them, and the file has been read to its end.
C4_Witness ==
  /\ pc = "running" /\ aligned /\ intact
  /\ reads = 2
  /\ offset_bytes = Len(file)
  /\ Len(delivered) < Len(lines_written)
  /\ start_offset = 0

\* C5 as stated: a poll leaves the offset at the end of the last complete
\* line, and a record whose line was flushed in parts is returned once the
\* line is complete, so that a file read to its end has lost no record.
C5_PartialLineNotConsumed ==
  (pc = "running" /\ intact /\ start_offset = 0)
    => /\ (last_poll = "read" => (offset_bytes = 0 \/ file[offset_bytes] = NL))
       /\ ((pending = <<>> /\ offset_bytes = Len(file))
             => delivered = RecordsOf(lines_written))

\* The record r stands on a line of its own within the bytes.
LineInSpan(r, bytes) ==
  \E i \in 1..(Len(bytes) - 1) :
    /\ bytes[i] = HalfA(r) /\ bytes[i + 1] = HalfB(r)
    /\ (i = 1 \/ bytes[i - 1] = NL)
    /\ (i + 1 = Len(bytes) \/ bytes[i + 2] = NL)

\* C6: a poll of an existing file moves the offset to the end of the file,
\* whether or not it returns a record, returns only records that stand on a
\* line of the bytes read, and leaves the loop running.
C6_BadLineSkippedOffsetAdvances ==
  [][(file_exists /\ offset_bytes <= Len(file) /\ Cycle)
       => /\ offset_bytes' = Len(file)
          /\ pc' = "running"
          /\ \A k \in 1..Len(new_events') :
               LineInSpan(new_events'[k], SubSeq(file, offset_bytes + 1, Len(file)))
          /\ Len(delivered') = Len(delivered) + Len(new_events')]_vars

\* C6: a poll has read lines none of which is a record, and the offset is
\* past them.
C6_Witness ==
  /\ pc = "running" /\ intact /\ aligned
  /\ last_poll = "read"
  /\ new_events = <<>>
  /\ offset_bytes = Len(file)
  /\ offset_bytes > start_offset
  /\ \E i \in 1..Len(file) : file[i] = Garbage
  /\ \E i \in 1..Len(file) : file[i] = Scalar

\* C7: a poll that finds no file returns no record, keeps the offset and
\* changes no store; the poll after the file has appeared reads from that
\* offset.
C7_MissingFileKeepsOffset ==
  [][/\ (~file_exists /\ Cycle)
          => /\ new_events' = <<>>
             /\ offset_bytes' = offset_bytes
             /\ pc' = "running"
             /\ UNCHANGED <<outVars, scored_events, delivered>>
     /\ (file_exists /\ last_poll = "missing" /\ Cycle)
          => /\ offset_bytes' = Max(offset_bytes, Len(file))
             /\ (offset_bytes >= Len(file) => new_events' = <<>>)
             /\ ((offset_bytes = 0 /\ pending = <<>>)
                   => new_events' = RecordsOf(lines_written))]_vars

\* C7: a poll found the file missing after earlier polls had read some of it.
C7_Witness ==
  /\ pc = "running"
  /\ last_poll = "missing"
  /\ offset_bytes > 0
  /\ ~file_exists

\* C8 as stated: a poll that finds the offset beyond the end of the file
\* takes the file as new, returns its records from the beginning and leaves
\* the offset at its end.
C8_TruncationResetsOffset ==
  [][(Cycle /\ file_exists /\ offset_bytes > Len(file))
       => /\ offset_bytes' = Len(file)
          /\ (pending = <<>> => new_events' = RecordsOf(lines_written))]_vars

\* The domain, as the loop normalises it, matches an exclusion pattern.
Excluded(domain) ==
  \E i \in 1..Len(cfg.exclude_patterns) : FnMatch(domain, cfg.exclude_patterns[i])

NormalDomains == {NormalizeDomain(RecordTable[r].domain) : r \in RecordIds}

\* C9: no event whose domain matches an exclusion pattern is in the
\* in-memory list, in a row of the scored-event store or in a printed line,
\* and the windows count the events of the in-memory list only.
C9_ExcludedNeverStored ==
  /\ \A i \in 1..Len(scored_events) : ~Excluded(scored_events[i].domain)
  /\ \A d \in NormalDomains :
       Excluded(d) =>
         LET shown == IF cfg.hash_domains
                      THEN <<"sha256:">> \o Sha256Hex20(cfg.hash_salt, d) ELSE d
         IN  /\ \A i \in DataRows(output_csv) :
                  output_csv.lines[i].cells.domain # shown
             /\ \A l \in stdout : l.tag = "live" => l.domain # shown
  /\ SumSeq([k \in 1..Len(windows) |-> windows[k].queries_per_min.num])
       = Len(scored_events)

\* C9: a poll returned a record of an excluded domain and records that were
\* scored and stored.
C9_Witness ==
  /\ \E k \in 1..Len(delivered) :
       Excluded(NormalizeDomain(RecordTable[delivered[k]].domain))
  /\ scored_events # <<>>
  /\ DataRows(output_csv) # {}
  /\ windows # <<>>

\* C10: with hash_domains set, the domain of every row of the scored-event
\* store and of every printed event line is the redacted identifier of an
\* accepted domain, never a domain itself.
C10_OnlyRedactedDomains ==
  cfg.hash_domains =>
    \A shown \in {output_csv.lines[i].cells.domain : i \in DataRows(output_csv)}
                 \cup {l.domain : l \in {x \in stdout : x.tag = "live"}} :
      /\ shown \notin NormalDomains
      /\ \E d \in NormalDomains :
           /\ d # <<>>
           /\ ~Excluded(d)
           /\ shown = <<"sha256:">> \o Sha256Hex20(cfg.hash_salt, d)

\* C10: with hash_domains set, events were stored and printed.
C10_Witness ==
  /\ cfg.hash_domains
  /\ Cardinality(DataRows(output_csv)) >= 2
  /\ \E l \in stdout : l.tag = "live"


HexDigitSet == {HexDigits[i] : i \in 1..Len(HexDigits)}

\* C11: with hashing off redact_domain returns the domain; with hashing on
\* it returns the tag "sha256:" and then exactly 20 hexadecimal digits; two
\* calls with the same arguments return the same.
C11_RedactFormat ==
  call.fn = "redact" =>
    \A k \in 1..Len(call.results) :
      LET out == call.results[k]
      IN  /\ ~call.hash_domains => out = call.domain
          /\ call.hash_domains =>
               /\ Len(out) = 21
               /\ out[1] = "sha256:"
               /\ \A i \in 2..21 : out[i] \in HexDigitSet
          /\ out = call.results[1]

\* C11: redact_domain was called twice on a domain with hashing on.
C11_Witness ==
  /\ call.fn = "redact"
  /\ call.hash_domains
  /\ call.domain # <<>>
  /\ Len(call.results) = 2

\* A glob in which only "*" and "?" are wildcards.
RECURSIVE StarQuestionMatch(_, _)
StarQuestionMatch(name, pat) ==
  IF pat = <<>> THEN name = <<>>
  ELSE IF Head(pat) = "*"
       THEN StarQuestionMatch(name, Tail(pat))
            \/ (name # <<>> /\ StarQuestionMatch(Tail(name), pat))
       ELSE /\ name # <<>>
            /\ (Head(pat) = "?" \/ Head(pat) = Head(name))
            /\ StarQuestionMatch(Tail(name), Tail(pat))

ClassEnd(pat) ==
  LET from == IF Len(pat) >= 2 /\ pat[2] = "!" THEN 4 ELSE 3
      S == {j \in from..Len(pat) : pat[j] = "]"}
  IN  IF S = {} THEN 0 ELSE CHOOSE j \in S : \A k \in S : j <= k

ClassHas(pat, e, c) ==
  IF pat[2] = "!" THEN c \notin {pat[i] : i \in 3..(e - 1)}
  ELSE c \in {pat[i] : i \in 2..(e - 1)}

\* The lengths of the prefixes of name that pat can match, given the lengths
\* S matched so far.
RECURSIVE GlobReach(_, _, _)
GlobReach(name, pat, S) ==
  IF pat = <<>> THEN S
  ELSE IF Head(pat) = "*"
       THEN GlobReach(name, Tail(pat),
                      {q \in 0..Len(name) : \E p \in S : p <= q})
       ELSE IF Head(pat) = "[" /\ ClassEnd(pat) > 0
            THEN GlobReach(name, SubSeq(pat, ClassEnd(pat) + 1, Len(pat)),
                           {p + 1 : p \in {q \in S :
                              /\ q < Len(name)
                              /\ ClassHas(pat, ClassEnd(pat), name[q + 1])}})
            ELSE GlobReach(name, Tail(pat),
                           {p + 1 : p \in {q \in S :
                              /\ q < Len(name)
                              /\ (Head(pat) = "?" \/ name[q + 1] = Head(pat))}})

PurgeCutoff == call.now - call.retention_days * MinutesPerDay

\* C13 as stated: after a purge with retention_days > 0 the store holds the
\* header and exactly the rows it held before whose timestamp does not parse
\* or is not older than the cutoff, in their order.
C13_PurgeKeepsExactlyRecent ==
  (call.fn = "purge" /\ call.retention_days > 0 /\ call.before.exists) =>
    LET Stays(line) == \/ ~IsoParses(line.cells.ts)
                       \/ line.cells.ts.inst >= PurgeCutoff
    IN  output_csv.lines
          = <<Head(call.before.lines)>> \o SelectSeq(Tail(call.before.lines), Stays)

\* The data rows among the lines whose timestamp does not parse.
Unparsable(lines) ==
  LET Test(line) == ~line.hdr /\ ~IsoParses(line.cells.ts)
  IN  SelectSeq(lines, Test)

\* C14: a purge leaves every row whose timestamp does not parse in the store,
\* in its place among such rows, and goes on to the rows after it: a purge
\* that has run to its end leaves no offset-aware timestamp older than the
\* cutoff.
C14_UnparsableRowsKept ==
  call.fn = "purge" =>
    /\ Unparsable(output_csv.lines) = Unparsable(call.before.lines)
    /\ call.rewritten =>
         \A i \in DataRows(output_csv) :
           output_csv.lines[i].cells.ts.k = "iso"
             => output_csv.lines[i].cells.ts.inst >= PurgeCutoff

\* C14: a purge met a row whose timestamp does not parse before a row older
\* than the cutoff, kept the first and removed the second.
C14_Witness ==
  /\ call.fn = "purge"
  /\ call.rewritten
  /\ \E i, j \in DataRows(call.before) :
       /\ i < j
       /\ ~IsoParses(call.before.lines[i].cells.ts)
       /\ call.before.lines[j].cells.ts.k = "iso"
       /\ call.before.lines[j].cells.ts.inst < PurgeCutoff
  /\ Unparsable(output_csv.lines) # <<>>
  /\ Len(output_csv.lines) < Len(call.before.lines)

\* C15: a purge with retention_days <= 0, or of a store that does not exist,
\* leaves the store as it was, writes no file and does not raise.
C15_NoPurgeWithoutRetention ==
  (call.fn = "purge" /\ (call.retention_days <= 0 \/ ~call.before.exists)) =>
    /\ output_csv = call.before
    /\ ~call.rewritten
    /\ ~call.raised

\* C15: a purge with retention_days = 0 ran late over a store that holds a
\* row older than a day.
C15_Witness ==
  /\ call.fn = "purge"
  /\ call.retention_days = 0
  /\ \E i \in DataRows(call.before) :
       /\ call.before.lines[i].cells.ts.k = "iso"
       /\ call.before.lines[i].cells.ts.inst < call.now - MinutesPerDay

\* A store is no file, or one header of the given fields and then data rows
\* of these fields.
StoreWellFormed(store, fieldnames) ==
  IF ~store.exists THEN store.lines = <<>>
  ELSE /\ store.lines # <<>>
       /\ store.lines[1] = HeaderLine(fieldnames)
       /\ \A i \in 2..Len(store.lines) :
            /\ ~store.lines[i].hdr
            /\ DOMAIN store.lines[i].cells
                 = {fieldnames[k] : k \in 1..Len(fieldnames)}

\* C16: after any appends and purges the scored-event store is one header of
\* its fixed columns followed by data rows only.
C16_OneHeaderThenRows == StoreWellFormed(output_csv, EventFields)

\* C16: a purge had removed every data row, and a row was then appended to
\* the header that was left.
C16_Witness ==
  /\ call.fn = "append"
  /\ call.before.lines = <<HeaderLine(EventFields)>>
  /\ Len(output_csv.lines) = 2


\* The aggregator has returned the windows of a non-empty batch.
Aggregated == call.fn = "aggregate" /\ call.done /\ ~call.raised /\ call.events # <<>>

\* C17: the windows a call returns for a non-empty batch, given in any
\* order, are in strictly increasing order of window_start, and each starts
\* at or after the end of the one before.
C17_WindowsOrderedDisjoint ==
  Aggregated =>
    /\ call.result # <<>>
    /\ \A k \in 2..Len(call.result) :
         /\ call.result[k].window_start.inst > call.result[k - 1].window_start.inst
         /\ call.result[k].window_start.inst >= call.result[k - 1].window_end.inst

\* C17: a batch that was not in the order of its timestamps gave at least
\* two windows.
C17_Witness ==
  /\ Aggregated
  /\ Len(call.result) >= 2
  /\ \E i, j \in 1..Len(call.events) :
       i < j /\ call.events[i].ts.inst > call.events[j].ts.inst

\* The input events whose instant lies in [window_start, window_end).
EventsWithin(window) ==
  {i \in 1..Len(call.events) :
     /\ window.window_start.inst <= call.events[i].ts.inst
     /\ call.events[i].ts.inst < window.window_end.inst}

\* C18 as stated: every input event is counted in exactly one window, every
\* window holds an event, and a window counts as many events as have their
\* instant in [window_start, window_end).
C18_PartitionByInstant ==
  Aggregated =>
    /\ SumSeq([k \in 1..Len(call.result) |-> call.result[k].queries_per_min.num])
         = Len(call.events)
    /\ \A k \in 1..Len(call.result) :
         /\ call.result[k].queries_per_min.num >= 1
         /\ call.result[k].queries_per_min.num
              = Cardinality(EventsWithin(call.result[k]))

\* A ratio lies in [0, 1].
InUnit(r) == r.den > 0 /\ 0 <= r.num /\ r.num <= r.den

\* C19: every window returned spans window_minutes, and its
\* newly_seen_ratio, nxdomain_rate and high_risk_domain_ratio lie in [0, 1].
C19_WindowStatsInvariant ==
  Aggregated =>
    \A k \in 1..Len(call.result) :
      /\ call.result[k].window_end.inst - call.result[k].window_start.inst
           = call.window_minutes
      /\ call.result[k].window_end.off = call.result[k].window_start.off
      /\ InUnit(call.result[k].newly_seen_ratio)
      /\ InUnit(call.result[k].nxdomain_rate)
      /\ InUnit(call.result[k].high_risk_domain_ratio)

\* C19: a call returned a window with an NXDOMAIN rate and a high-risk ratio
\* strictly between 0 and 1, and a later window without a new domain.
C19_Witness ==
  /\ Aggregated
  /\ \E k \in 1..Len(call.result) :
       /\ 0 < call.result[k].nxdomain_rate.num
       /\ call.result[k].nxdomain_rate.num < call.result[k].nxdomain_rate.den
       /\ 0 < call.result[k].high_risk_domain_ratio.num
       /\ call.result[k].high_risk_domain_ratio.num
            < call.result[k].high_risk_domain_ratio.den
  /\ \E k \in 2..Len(call.result) : call.result[k].newly_seen_ratio.num = 0

\* C20 as stated: seen_history never holds more than its capacity, and
\* seen_set holds at most as many domains, exactly those of seen_history.
C20_HistoryMatchesSet ==
  /\ Len(seen_history) <= SeenCapacity
  /\ Cardinality(seen_set) <= SeenCapacity
  /\ seen_set = {seen_history[i] : i \in 1..Len(seen_history)}


\* The domains of the k-th bucket of the last call: the windows take the
\* sorted events in order, result[k] the next queries_per_min.num of them.
BucketDomains(k) ==
  LET parsed == SortedByTs(call.events)
      before == SumSeq([j \in 1..(k - 1) |-> call.result[j].queries_per_min.num])
      count == call.result[k].queries_per_min.num
  IN  {parsed[i].domain : i \in (before + 1)..(before + count)}

EarlierDomains(k) == UNION {BucketDomains(j) : j \in 1..(k - 1)}

\* C21: with fewer distinct domains than the capacity of the history (50,000,
\* far above any batch here), the newly_seen_ratio of a window is the number
\* of its unique domains that occur in no earlier window of the call, over
\* the number of its unique domains; for the first window that is 1.
C21_NewlySeenRatio ==
  Aggregated =>
    /\ \A k \in 1..Len(call.result) :
         call.result[k].newly_seen_ratio =
           Rat(Cardinality(BucketDomains(k) \ EarlierDomains(k)),
               Cardinality(BucketDomains(k)))
    /\ call.result[1].newly_seen_ratio.num = call.result[1].newly_seen_ratio.den
    /\ Cardinality(UNION {BucketDomains(k) : k \in 1..Len(call.result)}) < SeenMaxLen

\* A second window all of whose domains were seen in the first, after a first
\* window of two domains.
C21_Witness ==
  /\ Aggregated
  /\ Len(call.result) >= 2
  /\ call.result[1].newly_seen_ratio = Rat(2, 2)
  /\ call.result[2].newly_seen_ratio.num = 0
  /\ BucketDomains(2) \subseteq BucketDomains(1)

\* The queries_per_min of the windows of the last call, as event counts.
RateSeries == [k \in 1..Len(call.result) |-> call.result[k].queries_per_min.num]

\* C22: the periodicity score is 0 when the batch has fewer than 4 windows,
\* 0 when all windows have the same queries_per_min, and never negative.
C22_PeriodicityZeroOrPositive ==
  Aggregated =>
    \A k \in 1..Len(call.result) :
      LET score == call.result[k].periodicity_score
      IN  /\ score.den > 0
          /\ score.num >= 0
          /\ Len(call.result) < 4 => score.num = 0
          /\ (\A i, j \in 1..Len(call.result) : RateSeries[i] = RateSeries[j])
               => score.num = 0

\* Four or more windows with the same number of events, two or more each.
C22_Witness ==
  /\ Aggregated
  /\ Len(call.result) >= 4
  /\ \A i \in 1..Len(call.result) : RateSeries[i] = 2
  /\ call.result[1].periodicity_score.num = 0

\* C28: all windows returned by one call of the aggregator carry the same
\* periodicity_score, the one score of the queries_per_min series of the
\* whole batch, not a score per window.
C28_OnePeriodicityPerBatch ==
  Aggregated =>
    \A k \in 1..Len(call.result) :
      /\ call.result[k].periodicity_score = call.result[1].periodicity_score
      /\ call.result[k].periodicity_score = periodicity_score(RateSeries)

\* A batch whose score is not 0: it is on the first window too, although
\* the first three windows alone would score 0.
C28_Witness ==
  /\ Aggregated
  /\ Len(call.result) >= 4
  /\ call.result[1].periodicity_score.num > 0
  /\ call.result[Len(call.result)].periodicity_score = call.result[1].periodicity_score

\* C23: in single-pass mode a session makes exactly one pass of the loop and
\* then stops, also when the file is missing or has nothing new; in
\* continuous mode the loop is never left by itself: after a pass that
\* did not raise it is at the top of the while again, where the next poll
\* starts.
C23_OnePassThenStop ==
  /\ (pc = "running" /\ cfg.once) => (steps = <<>> /\ last_poll = "none")
  /\ pc = "stopped" => (cfg.once /\ steps # <<>> /\ last_poll # "none")
  /\ ~cfg.once => pc # "stopped"

\* A single pass that found no file, and stopped.
C23_Witness ==
  /\ pc = "stopped"
  /\ cfg.once
  /\ last_poll = "missing"
  /\ steps = <<PollStep>>

\* C24: every pass of the loop that does not raise runs the purger on the
\* event store and then on the alert store, as its last two parts.
C24_EveryPassPurges ==
  (steps # <<>> /\ pc # "crashed") =>
    /\ Len(steps) >= 3
    /\ steps[Len(steps) - 1] = PurgeEventsStep
    /\ steps[Len(steps)] = PurgeAlertsStep

\* A store with the domain column blanked.
WithoutDomain(store) ==
  [exists |-> store.exists,
   lines |-> [i \in 1..Len(store.lines) |->
                IF store.lines[i].hdr THEN store.lines[i]
                ELSE [store.lines[i] EXCEPT !.cells.domain = <<>>]]]

\* C29: a session that differs only in hash_domains or hash_salt computes
\* the same windows from the same events and has the same rows in the alert
\* store; the event stores and the printed lines differ in the domain only.
C29_RedactionLeavesWindowsAlone ==
  call.fn = "twin" =>
    /\ windows = call.st.windows
    /\ scored_events = call.st.scored_events
    /\ emitted_windows = call.st.emitted_windows
    /\ alerts_csv = call.st.alerts_csv
    /\ appended = call.st.appended
    /\ (pc = "crashed") = call.raised
    /\ WithoutDomain(output_csv) = WithoutDomain(call.st.output_csv)
    /\ {[l EXCEPT !.domain = <<>>] : l \in stdout}
         = {[l EXCEPT !.domain = <<>>] : l \in call.st.stdout}

\* The two sessions have stored different domains, and two or more windows
\* of which one is not "Normal".
C29_Witness ==
  /\ call.fn = "twin"
  /\ output_csv # call.st.output_csv
  /\ Len(windows) >= 2
  /\ Cardinality(DataRows(alerts_csv)) >= 2
  /\ \E l \in stdout : l.tag = "live-alert"

\* The windows of the pass just made whose window_end had not been emitted.
NewWindows == {k \in 1..Len(windows') : windows'[k].window_end \notin emitted_windows}

\* C25: every window whose window_end has not been emitted in the session
\* is scored and gets a row in the alert store whatever its label, and no
\* other window gets one; a "live-alert" line is printed for it exactly when
\* its label is not "Normal"; and every "live-alert" line printed has a row
\* that was appended for the same window.
C25_Step ==
  /\ Len(appended') = Len(appended) + Cardinality(NewWindows)
  /\ \A k \in NewWindows :
       LET w == windows'[k]
           label == score_window(w).anomaly_label
       IN  /\ \E i \in (Len(appended) + 1)..Len(appended') :
                appended'[i] = [session |-> sessions,
                                window_start |-> w.window_start,
                                window_end |-> w.window_end,
                                anomaly_label |-> label]
           /\ (LogLine("live-alert", w.window_start, <<>>, label) \in stdout')
                <=> label # "Normal"
  /\ \A l \in stdout' :
       l.tag = "live-alert" =>
         /\ l.label # "Normal"
         /\ \E i \in 1..Len(appended') :
              /\ appended'[i].window_start = l.ts
              /\ appended'[i].anomaly_label = l.label
  /\ cfg.retention_days = 0 =>
       /\ Cardinality(DataRows(alerts_csv')) = Len(appended')
       /\ \A i \in 1..Len(appended') :
            /\ alerts_csv'.lines[i + 1].cells.window_end = appended'[i].window_end
            /\ alerts_csv'.lines[i + 1].cells.anomaly_label
                 = appended'[i].anomaly_label

C25_EveryNewWindowPersisted == [][C25_Step]_vars

\* Rows of both kinds are in the alert store, and the line of the window
\* that is not "Normal" has been printed.
C25_Witness ==
  /\ cfg.retention_days = 0
  /\ \E i, j \in DataRows(alerts_csv) :
       /\ alerts_csv.lines[i].cells.anomaly_label = "Normal"
       /\ alerts_csv.lines[j].cells.anomaly_label # "Normal"
       /\ LogLine("live-alert", alerts_csv.lines[j].cells.window_start, <<>>,
                  alerts_csv.lines[j].cells.anomaly_label) \in stdout

\* The records a poll returned whose "ts" is no timestamp with a UTC offset.
OddTsDelivered ==
  {k \in 1..Len(delivered) : RecordTable[delivered[k]].ts.k \in {"bad", "naive"}}

\* C26: no line of the file makes a pass raise; a line that is no JSON
\* object and a record without domain, without timestamp or with a
\* timestamp that is no instant with a UTC offset leave no row, and the pass
\* goes through all its parts for the other records.
C26_NoRecordAbortsPass ==
  /\ pc # "crashed"
  /\ OddTsDelivered # {} =>
       \A i \in DataRows(output_csv) : output_csv.lines[i].cells.ts.k = "iso"
  /\ new_events # <<>> =>
       steps = <<PollStep, EventsStep, WindowsStep, PurgeEventsStep, PurgeAlertsStep>>

\* The writer has logged its records in the order of their instants, with
\* timestamps of one UTC offset (so that the strings are in order too).
WrittenInTsOrder ==
  /\ \A i \in 1..Len(lines_written) :
       lines_written[i] > 0 => RecordTable[lines_written[i]].ts.off = 0
  /\ \A i, j \in 1..Len(lines_written) :
       (/\ i < j
        /\ lines_written[i] > 0 /\ lines_written[j] > 0
        /\ RecordTable[lines_written[i]].ts.k = "iso"
        /\ RecordTable[lines_written[j]].ts.k = "iso")
         => RecordTable[lines_written[i]].ts.inst <= RecordTable[lines_written[j]].ts.inst


\* The events the session has scored whose instant is in [from, to).
ScoredWithin(from, to) ==
  {k \in 1..Len(scored_events) :
     from <= scored_events[k].ts.inst /\ scored_events[k].ts.inst < to}

\* C27: with records logged in timestamp order, a window in the alert store
\* was persisted with all the events of its interval: the number of events
\* in its row is the number of events the session has read in
\* [window_start, window_end), so no record read later falls inside it.
C27_OnlyClosedWindowsEmitted ==
  WrittenInTsOrder =>
    \A i \in DataRows(alerts_csv) :
      LET row == alerts_csv.lines[i].cells
      IN  row.summary[1].num
            = Cardinality(ScoredWithin(row.window_start.inst, row.window_end.inst))

\* C30: the windows in the alert store do not overlap, in whatever order the
\* records arrived over the passes of the session.
C30_PersistedWindowsDisjoint ==
  \A i, j \in DataRows(alerts_csv) :
    i < j =>
      LET a == alerts_csv.lines[i].cells
          b == alerts_csv.lines[j].cells
      IN  \/ a.window_end.inst <= b.window_start.inst
          \/ b.window_end.inst <= a.window_start.inst
=============================================================================
